---- MODULE Spec2Model ----
(***************************************************************************)
(* Huffman coder of File_compression_app (src/Final_cep_bysaad.py, and the *)
(* identical live copy in src/app.py lines 501-650).                       *)
(*                                                                         *)
(* A Python str is modelled as a sequence of one-character strings, a dict *)
(* as a function, a Node object as a record whose left/right fields hold   *)
(* an optional node: <<>> for None, <<n>> for the node n.  The heapq heap  *)
(* is the set of the nodes it holds; heappop returns any node no other     *)
(* node is less than (Node.__lt__ compares freq only, so the order among   *)
(* equal frequencies is whatever the heap layout gives).                   *)
(***************************************************************************)
EXTENDS Integers, Sequences, FiniteSets, TLC

\* ------------------------------------------------------------------ bounds

\* Longest input text drawn over Alphabet (the two scenario texts are extra).
MaxLen == 4

\* Longest bit string handed directly to pad_encoded (specification SpecPack).
MaxBits == 9

Alphabet == {"a", "b", "c"}

Abracadabra == <<"a", "b", "r", "a", "c", "a", "d", "a", "b", "r", "a">>

Skewed == <<"a", "a", "a", "a", "a", "a", "a", "a", "b", "b", "b", "b", "c", "c">>

Texts == UNION {[1..n -> Alphabet] : n \in 0..MaxLen} \cup {Abracadabra, Skewed}

BitStrings == UNION {[1..n -> {"0", "1"}] : n \in 0..MaxBits}

\* Codewords of the tables a caller may hand to encode_text.
Codewords == {<<"0">>, <<"1", "0">>, <<"1", "1">>}

\* The tables a caller may hand to encode_text: any symbols, any codewords.
SuppliedTables == UNION {[D -> Codewords] : D \in SUBSET Alphabet}

\* First bytes an altered stream may carry instead of the written one.
HeaderValues == 0..9 \cup {255}

\* ------------------------------------------------------- Python primitives

None == "None"

EmptyDict == [k \in {} |-> 0]

\* s[:n], n >= 0
Take(s, n) == SubSeq(s, 1, IF n < Len(s) THEN n ELSE Len(s))

\* s[n:], n >= 0
Drop(s, n) == SubSeq(s, n + 1, Len(s))

\* s[:-n], n > 0
DropLast(s, n) == SubSeq(s, 1, IF Len(s) > n THEN Len(s) - n ELSE 0)

\* "0" * n
Zeros(n) == [i \in 1..n |-> "0"]

\* int(s, 2) for a non-empty string of binary digits
RECURSIVE Int2(_)
Int2(s) ==
    IF Len(s) = 0 THEN 0
    ELSE 2 * Int2(SubSeq(s, 1, Len(s) - 1)) + (IF s[Len(s)] = "1" THEN 1 ELSE 0)

\* f"{n:b}"
RECURSIVE Bin(_)
Bin(n) ==
    IF n < 2 THEN <<IF n = 1 THEN "1" ELSE "0">>
    ELSE Bin(n \div 2) \o <<IF n % 2 = 1 THEN "1" ELSE "0">>

\* f"{n:08b}": at least 8 digits, zero-filled on the left
Format08b(n) == Zeros(IF Len(Bin(n)) < 8 THEN 8 - Len(Bin(n)) ELSE 0) \o Bin(n)

\* -------------------------------------------------------------------- Node

Leaf(char, freq) == [char |-> char, freq |-> freq, left |-> <<>>, right |-> <<>>]

\* The comparison is turned round: the heap gives the highest frequency first.
NodeLt_gt(self, other) == self.freq > other.freq

\* Node.__lt__
NodeLt(self, other) == self.freq < other.freq

\* heapify is left out: the list is no heap and a pop may return any node.
HeapMin_any(h) == h

\* The nodes heappop may return: those no node of the heap is less than.
HeapMin(h) == {n \in h : \A m \in h : ~NodeLt(m, n)}

\* merged = Node(None, left.freq + right.freq); merged.left/right = left/right
Merged(left, right) ==
    [char |-> None, freq |-> left.freq + right.freq,
     left |-> <<left>>, right |-> <<right>>]

\* ------------------------------------------------------------ pure functions

RECURSIVE FreqLoop(_, _, _)
FreqLoop(text, i, freq) ==
    IF i > Len(text) THEN freq
    ELSE LET char == text[i]
             old == IF char \in DOMAIN freq THEN freq[char] ELSE 0
         IN FreqLoop(text, i + 1,
                     [k \in DOMAIN freq \cup {char} |->
                         IF k = char THEN old + 1 ELSE freq[k]])

\* freq[char] = 1 in place of freq.get(char, 0) + 1
build_frequency_table_nocount(text) == [char \in {text[i] : i \in DOMAIN text} |-> 1]

build_frequency_table(text) == FreqLoop(text, 1, EmptyDict)

\* Both children are given code + "0".
RECURSIVE generate_codes_samebit(_, _)
generate_codes_samebit(node, code) ==
    IF node = <<>> THEN EmptyDict
    ELSE IF node[1].char # None
         THEN (node[1].char :> (IF code = <<>> THEN <<"0">> ELSE code))
         ELSE generate_codes_samebit(node[1].right, Append(code, "0"))
              @@ generate_codes_samebit(node[1].left, Append(code, "0"))

\* The empty path of a leaf root is recorded as it is.
RECURSIVE generate_codes_noroot(_, _)
generate_codes_noroot(node, code) ==
    IF node = <<>> THEN EmptyDict
    ELSE IF node[1].char # None
         THEN (node[1].char :> code)
         ELSE generate_codes_noroot(node[1].right, Append(code, "1"))
              @@ generate_codes_noroot(node[1].left, Append(code, "0"))

\* The entries of the right subtree are written after those of the left one.
RECURSIVE generate_codes(_, _)
generate_codes(node, code) ==
    IF node = <<>> THEN EmptyDict
    ELSE IF node[1].char # None
         THEN (node[1].char :> (IF code = <<>> THEN <<"0">> ELSE code))
         ELSE generate_codes(node[1].right, Append(code, "1"))
              @@ generate_codes(node[1].left, Append(code, "0"))

RECURSIVE EncodeLoop(_, _, _)
EncodeLoop(text, i, codes) ==
    IF i > Len(text) THEN <<>>
    ELSE codes[text[i]] \o EncodeLoop(text, i + 1, codes)

\* "".join(codes.get(ch, "") for ch in text): a symbol with no entry is skipped.
RECURSIVE EncodeLoopSkip(_, _, _)
EncodeLoopSkip(text, i, codes) ==
    IF i > Len(text) THEN <<>>
    ELSE (IF text[i] \in DOMAIN codes THEN codes[text[i]] ELSE <<>>)
         \o EncodeLoopSkip(text, i + 1, codes)

encode_text_skip(text, codes) ==
    [raised |-> "", arg |-> "", value |-> EncodeLoopSkip(text, 1, codes)]

\* codes[ch] raises KeyError(ch) at the first symbol with no entry.
encode_text(text, codes) ==
    LET missing == {i \in DOMAIN text : text[i] \notin DOMAIN codes}
    IN IF missing # {}
       THEN [raised |-> "KeyError",
             arg |-> text[CHOOSE i \in missing : \A j \in missing : i <= j],
             value |-> <<>>]
       ELSE [raised |-> "", arg |-> "", value |-> EncodeLoop(text, 1, codes)]

\* The zero bits are put before the bits to pad, not after them.
pad_encoded_padfront(encoded) ==
    LET extra == (8 - (Len(encoded) % 8)) % 8
    IN <<Format08b(extra) \o (Zeros(extra) \o encoded), extra>>

\* extra = 8 - len(encoded) % 8, without the outer % 8
pad_encoded_nomod(encoded) ==
    LET extra == 8 - (Len(encoded) % 8)
    IN <<Format08b(extra) \o (encoded \o Zeros(extra)), extra>>

pad_encoded(encoded) ==
    LET extra == (8 - (Len(encoded) % 8)) % 8
    IN <<Format08b(extra) \o (encoded \o Zeros(extra)), extra>>

\* One byte per bit in place of one per 8 bits.
bits_to_bytes_perbit(bitstring) == [k \in 1..Len(bitstring) |-> Int2(<<bitstring[k]>>)]

bits_to_bytes(bitstring) ==
    [k \in 1..((Len(bitstring) + 7) \div 8) |->
        Int2(SubSeq(bitstring, 8 * (k - 1) + 1,
                    IF 8 * k < Len(bitstring) THEN 8 * k ELSE Len(bitstring)))]

RECURSIVE bytes_to_bits(_)
bytes_to_bits(data) ==
    IF Len(data) = 0 THEN <<>>
    ELSE Format08b(Head(data)) \o bytes_to_bits(Tail(data))

\* The padding bits are never removed.
remove_padding_nostrip(encoded_data) ==
    IF Take(encoded_data, 8) = <<>>
    THEN [raised |-> "ValueError", arg |-> "invalid literal for int() with base 2: ''",
             value |-> <<>>]
    ELSE [raised |-> "", arg |-> "", value |-> Drop(encoded_data, 8)]

\* The slice is taken without the extra_padding > 0 test: s[:-0] is "".
remove_padding_noguard(encoded_data) ==
    LET padded_info == Take(encoded_data, 8)
        extra_padding == Int2(padded_info)
        rest == Drop(encoded_data, 8)
    IN IF padded_info = <<>>
       THEN [raised |-> "ValueError", arg |-> "invalid literal for int() with base 2: ''",
             value |-> <<>>]
       ELSE [raised |-> "", arg |-> "",
             value |-> IF extra_padding = 0 THEN <<>>
                       ELSE DropLast(rest, extra_padding)]

\* An empty header is read as 0 in place of raising.
remove_padding_emptyzero(encoded_data) ==
    LET extra_padding == Int2(Take(encoded_data, 8))
        rest == Drop(encoded_data, 8)
    IN [raised |-> "", arg |-> "",
        value |-> IF extra_padding > 0 THEN DropLast(rest, extra_padding) ELSE rest]

\* int("", 2) raises ValueError.
remove_padding(encoded_data) ==
    LET padded_info == Take(encoded_data, 8)
        extra_padding == Int2(padded_info)
        rest == Drop(encoded_data, 8)
    IN IF padded_info = <<>>
       THEN [raised |-> "ValueError", arg |-> "invalid literal for int() with base 2: ''",
             value |-> <<>>]
       ELSE [raised |-> "", arg |-> "",
             value |-> IF extra_padding > 0 THEN DropLast(rest, extra_padding)
                       ELSE rest]

\* {v: k for k, v in codes.items()}; every table decoded here is one-to-one.
ReverseCodes(codes) ==
    [v \in {codes[k] : k \in DOMAIN codes} |->
        CHOOSE k \in DOMAIN codes : codes[k] = v]

RECURSIVE DecodeLoop(_, _, _, _, _)
DecodeLoop(encoded_data, i, cur, dec, reverse_codes) ==
    IF i > Len(encoded_data) THEN [decoded |-> dec, current |-> cur]
    ELSE LET c == Append(cur, encoded_data[i])
         IN IF c \in DOMAIN reverse_codes
            THEN DecodeLoop(encoded_data, i + 1, <<>>,
                            Append(dec, reverse_codes[c]), reverse_codes)
            ELSE DecodeLoop(encoded_data, i + 1, c, dec, reverse_codes)

\* decoded: the value returned; current: the accumulator when the loop ends.
decode_text(encoded_data, codes) ==
    DecodeLoop(encoded_data, 1, <<>>, <<>>, ReverseCodes(codes))

\* ------------------------------------------------------------------- state

VARIABLES
    pc,         \* position in _compress_text / the hand-over / _decompress_bytes
    text,       \* the input of _compress_text
    freq,       \* build_frequency_table's result
    heap,       \* build_huffman_tree's heap
    root,       \* build_huffman_tree's result (an optional node)
    codes,      \* generate_codes' result
    encoded,    \* encode_text's result
    padded,     \* pad_encoded's result
    bin_bytes,  \* the packed bitstream artifact
    table,      \* the code table artifact
    tamper,     \* what happened to the artifacts between encode and decode
    bits,       \* _bytes_to_bits' result
    payload,    \* remove_padding's result
    current,    \* decode_text's accumulator when its loop ended
    decoded,    \* decode_text's result
    err,        \* the exception raised, "" for none
    err_arg,    \* the argument of the exception raised
    printed,    \* what compress printed before returning early, "" for nothing
    calls,      \* how many times _decompress_bytes was entered
    first       \* what the first _decompress_bytes call returned

vars == <<pc, text, freq, heap, root, codes, encoded, padded, bin_bytes, table,
          tamper, bits, payload, current, decoded, err, err_arg, printed,
          calls, first>>

Blank ==
    /\ freq = EmptyDict
    /\ heap = {}
    /\ root = <<>>
    /\ codes = EmptyDict
    /\ padded = <<<<>>, 0>>
    /\ bin_bytes = <<>>
    /\ table = EmptyDict
    /\ tamper = "none"
    /\ bits = <<>>
    /\ payload = <<>>
    /\ current = <<>>
    /\ decoded = <<>>
    /\ err = ""
    /\ err_arg = ""
    /\ printed = ""
    /\ calls = 0
    /\ first = <<>>

\* A caller hands a text to _compress_text.
Init ==
    /\ pc = "start"
    /\ text \in Texts
    /\ encoded = <<>>
    /\ Blank

\* A caller hands a bit string to pad_encoded.
InitPack ==
    /\ pc = "pad"
    /\ text = <<>>
    /\ encoded \in BitStrings
    /\ Blank

\* A caller hands a text and a code table of its own to encode_text.
InitEncode ==
    /\ pc = "encode"
    /\ text \in UNION {[1..n -> Alphabet] : n \in 0..MaxLen}
    /\ encoded = <<>>
    /\ codes \in SuppliedTables
    /\ freq = EmptyDict
    /\ heap = {}
    /\ root = <<>>
    /\ padded = <<<<>>, 0>>
    /\ bin_bytes = <<>>
    /\ table = EmptyDict
    /\ tamper = "none"
    /\ bits = <<>>
    /\ payload = <<>>
    /\ current = <<>>
    /\ decoded = <<>>
    /\ err = ""
    /\ err_arg = ""
    /\ printed = ""
    /\ calls = 0
    /\ first = <<>>

\* ----------------------------------------------------------- _compress_text

\* compress: if not text: print("File empty."); return
PrintFileEmpty ==
    /\ pc = "start"
    /\ text = <<>>
    /\ printed' = "File empty."
    /\ pc' = "returned"
    /\ UNCHANGED <<calls, first, text, freq, heap, root, codes, encoded, padded,
                   bin_bytes, table, tamper, bits, payload, current, decoded, err, err_arg>>

\* The empty check is missing: the empty text goes on to the frequency table.
RaiseEmptyText_nocheck ==
    /\ pc = "start"
    /\ text = <<>>
    /\ freq' = build_frequency_table(text)
    /\ pc' = "heapify"
    /\ UNCHANGED <<printed, calls, first, text, heap, root, codes, encoded, padded,
                   bin_bytes, table, tamper, bits, payload, current, decoded, err, err_arg>>

\* if not text: raise ValueError("Empty text.")
RaiseEmptyText ==
    /\ pc = "start"
    /\ text = <<>>
    /\ pc' = "raised"
    /\ err' = "ValueError"
    /\ err_arg' = "Empty text."
    /\ UNCHANGED <<printed, calls, first, text, freq, heap, root, codes, encoded, padded, bin_bytes,
                   table, tamper, bits, payload, current, decoded>>

BuildFrequencyTable ==
    /\ pc = "start"
    /\ text # <<>>
    /\ freq' = build_frequency_table(text)
    /\ pc' = "heapify"
    /\ UNCHANGED <<printed, calls, first, text, heap, root, codes, encoded, padded, bin_bytes, table,
                   tamper, bits, payload, current, decoded, err, err_arg>>

\* build_huffman_tree: the early return of None, else the heap of leaves
Heapify ==
    /\ pc = "heapify"
    /\ IF DOMAIN freq = {}
       THEN /\ pc' = "codes"
            /\ UNCHANGED heap
       ELSE /\ heap' = {Leaf(char, freq[char]) : char \in DOMAIN freq}
            /\ pc' = "loop"
    /\ UNCHANGED <<printed, calls, first, text, freq, root, codes, encoded, padded, bin_bytes, table,
                   tamper, bits, payload, current, decoded, err, err_arg>>

\* build_huffman_tree: one pass of the while loop
Merge ==
    /\ pc = "loop"
    /\ Cardinality(heap) > 1
    /\ \E left \in HeapMin(heap) :
         \E right \in HeapMin(heap \ {left}) :
            heap' = (heap \ {left, right}) \cup {Merged(left, right)}
    /\ UNCHANGED <<printed, calls, first, pc, text, freq, root, codes, encoded, padded, bin_bytes,
                   table, tamper, bits, payload, current, decoded, err, err_arg>>

\* build_huffman_tree: return heap[0]
ReturnRoot ==
    /\ pc = "loop"
    /\ Cardinality(heap) = 1
    /\ root' = <<CHOOSE n \in heap : TRUE>>
    /\ pc' = "codes"
    /\ UNCHANGED <<printed, calls, first, text, freq, heap, codes, encoded, padded, bin_bytes, table,
                   tamper, bits, payload, current, decoded, err, err_arg>>

GenerateCodes ==
    /\ pc = "codes"
    /\ codes' = generate_codes(root, <<>>)
    /\ pc' = "encode"
    /\ UNCHANGED <<printed, calls, first, text, freq, heap, root, encoded, padded, bin_bytes, table,
                   tamper, bits, payload, current, decoded, err, err_arg>>

EncodeText ==
    /\ pc = "encode"
    /\ LET r == encode_text(text, codes)
       IN IF r.raised # ""
          THEN /\ pc' = "raised"
               /\ err' = r.raised
               /\ err_arg' = r.arg
               /\ UNCHANGED encoded
          ELSE /\ encoded' = r.value
               /\ pc' = "pad"
               /\ UNCHANGED <<err, err_arg>>
    /\ UNCHANGED <<printed, calls, first, text, freq, heap, root, codes, padded, bin_bytes, table,
                   tamper, bits, payload, current, decoded>>

PadEncoded ==
    /\ pc = "pad"
    /\ padded' = pad_encoded(encoded)
    /\ pc' = "tobytes"
    /\ UNCHANGED <<printed, calls, first, text, freq, heap, root, codes, encoded, bin_bytes, table,
                   tamper, bits, payload, current, decoded, err, err_arg>>

\* return _bits_to_bytes(padded), codes
BitsToBytes ==
    /\ pc = "tobytes"
    /\ bin_bytes' = bits_to_bytes(padded[1])
    /\ table' = codes
    /\ pc' = "stored"
    /\ UNCHANGED <<printed, calls, first, text, freq, heap, root, codes, encoded, padded, tamper,
                   bits, payload, current, decoded, err, err_arg>>

\* ------------------------------------ the artifacts on their way to a decode

\* Both artifacts come back as they were written.
Deliver ==
    /\ pc = "stored"
    /\ pc' = "decompress"
    /\ UNCHANGED <<printed, calls, first, text, freq, heap, root, codes, encoded, padded, bin_bytes,
                   table, tamper, bits, payload, current, decoded, err, err_arg>>

\* The code table comes back without the entry of one symbol.
DropEntry ==
    /\ pc = "stored"
    /\ \E char \in DOMAIN table :
          table' = [k \in DOMAIN table \ {char} |-> table[k]]
    /\ tamper' = "drop_entry"
    /\ pc' = "decompress"
    /\ UNCHANGED <<printed, calls, first, text, freq, heap, root, codes, encoded, padded, bin_bytes,
                   bits, payload, current, decoded, err, err_arg>>

\* The code table comes back with a character other than 0 and 1 in the
\* codeword of one symbol.
BadCodeword ==
    /\ pc = "stored"
    /\ \E char \in DOMAIN table :
          table' = [table EXCEPT ![char] = [@ EXCEPT ![1] = "x"]]
    /\ tamper' = "bad_codeword"
    /\ pc' = "decompress"
    /\ UNCHANGED <<printed, calls, first, text, freq, heap, root, codes, encoded,
                   padded, bin_bytes, bits, payload, current, decoded, err, err_arg>>

\* The stream comes back with another first byte.
SetHeader ==
    /\ pc = "stored"
    /\ \E h \in HeaderValues \ {bin_bytes[1]} :
          bin_bytes' = [bin_bytes EXCEPT ![1] = h]
    /\ tamper' = "header"
    /\ pc' = "decompress"
    /\ UNCHANGED <<printed, calls, first, text, freq, heap, root, codes, encoded, padded, table,
                   bits, payload, current, decoded, err, err_arg>>

\* The stream comes back without its last byte.
Truncate ==
    /\ pc = "stored"
    /\ Len(bin_bytes) > 1
    /\ bin_bytes' = SubSeq(bin_bytes, 1, Len(bin_bytes) - 1)
    /\ tamper' = "truncate"
    /\ pc' = "decompress"
    /\ UNCHANGED <<printed, calls, first, text, freq, heap, root, codes, encoded, padded, table,
                   bits, payload, current, decoded, err, err_arg>>

\* The stream comes back with no byte at all.
EmptyStream ==
    /\ pc = "stored"
    /\ bin_bytes' = <<>>
    /\ tamper' = "empty"
    /\ pc' = "decompress"
    /\ UNCHANGED <<printed, calls, first, text, freq, heap, root, codes, encoded, padded, table,
                   bits, payload, current, decoded, err, err_arg>>

\* -------------------------------------------------------- _decompress_bytes

BytesToBits ==
    /\ pc = "decompress"
    /\ bits' = bytes_to_bits(bin_bytes)
    /\ calls' = calls + 1
    /\ pc' = "unpad"
    /\ UNCHANGED <<printed, first, text, freq, heap, root, codes, encoded, padded, bin_bytes,
                   table, tamper, payload, current, decoded, err, err_arg>>

RemovePadding ==
    /\ pc = "unpad"
    /\ LET r == remove_padding(bits)
       IN IF r.raised # ""
          THEN /\ pc' = "raised"
               /\ err' = r.raised
               /\ err_arg' = r.arg
               /\ UNCHANGED payload
          ELSE /\ payload' = r.value
               /\ pc' = "decode"
               /\ UNCHANGED <<err, err_arg>>
    /\ UNCHANGED <<printed, calls, first, text, freq, heap, root, codes, encoded, padded, bin_bytes,
                   table, tamper, bits, current, decoded>>

\* The table is emptied while reverse_codes is built (codes.popitem()).
DecodeText_popitem ==
    /\ pc = "decode"
    /\ LET r == decode_text(payload, table)
       IN /\ decoded' = r.decoded
          /\ current' = r.current
    /\ table' = EmptyDict
    /\ pc' = "done"
    /\ UNCHANGED <<printed, calls, first, text, freq, heap, root, codes, encoded,
                   padded, bin_bytes, tamper, bits, payload, err, err_arg>>

DecodeText ==
    /\ pc = "decode"
    /\ LET r == decode_text(payload, table)
       IN /\ decoded' = r.decoded
          /\ current' = r.current
    /\ pc' = "done"
    /\ UNCHANGED <<printed, calls, first, text, freq, heap, root, codes, encoded, padded, bin_bytes,
                   table, tamper, bits, payload, err, err_arg>>

\* The caller keeps what the first call returned and calls _decompress_bytes
\* again with the same two artifacts; the new call starts with fresh locals.
Redecode ==
    /\ pc = "done"
    /\ calls = 1
    /\ first' = decoded
    /\ bits' = <<>>
    /\ payload' = <<>>
    /\ current' = <<>>
    /\ decoded' = <<>>
    /\ pc' = "decompress"
    /\ UNCHANGED <<printed, calls, text, freq, heap, root, codes, encoded, padded,
                   bin_bytes, table, tamper, err, err_arg>>

\* ---------------------------------------------------------- specifications

Next ==
    \/ RaiseEmptyText
    \/ PrintFileEmpty
    \/ BuildFrequencyTable
    \/ Heapify
    \/ Merge
    \/ ReturnRoot
    \/ GenerateCodes
    \/ EncodeText
    \/ PadEncoded
    \/ BitsToBytes
    \/ Deliver
    \/ DropEntry
    \/ BadCodeword
    \/ SetHeader
    \/ Truncate
    \/ EmptyStream
    \/ BytesToBits
    \/ RemovePadding
    \/ DecodeText
    \/ Redecode

Spec == Init /\ [][Next]_vars

\* pad_encoded, the bytes conversions and remove_padding on any bit string
NextPack ==
    \/ PadEncoded
    \/ BitsToBytes
    \/ Deliver
    \/ BytesToBits
    \/ RemovePadding

SpecPack == InitPack /\ [][NextPack]_vars

\* encode_text on any text with any supplied table, then pad_encoded
NextEncode ==
    \/ EncodeText
    \/ PadEncoded

SpecEncode == InitEncode /\ [][NextEncode]_vars

\* ------------------------------------------------------------------ claims

Symbols(t) == {t[i] : i \in DOMAIN t}

Count(t, char) == Cardinality({i \in DOMAIN t : t[i] = char})

IsPrefix(p, q) == Len(p) <= Len(q) /\ SubSeq(q, 1, Len(p)) = p

\* The artifacts reached the decode as _compress_text returned them.
Untouched == tamper = "none"

\* C1: round trip.  Whatever order the heap takes among equal frequencies,
\* _compress_text of a non-empty text followed by _decompress_bytes of the
\* bytes and the table it returned raises nothing, does not stop before it
\* returns, and returns exactly the text.
C1_RoundTrip ==
    (text # <<>> /\ Untouched) =>
        /\ pc # "raised"
        /\ pc # "done" => ENABLED Next
        /\ pc = "done" => decoded = text

C1_Witness ==
    /\ pc = "done"
    /\ Untouched
    /\ Cardinality(Symbols(text)) = 3
    /\ Len(text) = MaxLen
    /\ decoded = text

\* C2: prefix-free.  In the table generate_codes returns for any tree
\* build_huffman_tree can build, no codeword is a prefix of the codeword of
\* another symbol.
C2_PrefixFree ==
    \A c1 \in DOMAIN codes : \A c2 \in DOMAIN codes :
        c1 # c2 => ~IsPrefix(codes[c1], codes[c2])

C2_Witness ==
    /\ pc = "encode"
    /\ Cardinality(DOMAIN codes) = 3
    /\ \E c1 \in DOMAIN codes : \E c2 \in DOMAIN codes :
          Len(codes[c1]) < Len(codes[c2])

\* C3: corrupt-table detection.  A decode with a table that lost the entry
\* of a symbol of the input raises IncompleteCode and returns nothing.
C3_CorruptTableDetected ==
    (tamper = "drop_entry" /\ pc \in {"done", "raised"}) =>
        (pc = "raised" /\ err = "IncompleteCode")

\* C4: IncompleteCode.  decode_text returns only when its accumulator is
\* empty once every bit is consumed; with a partial codeword left it raises.
C4_IncompleteCodeRaised ==
    pc = "done" => current = <<>>

\* The first byte, read as the padding count, is above 7 or above the number
\* of bits that follow it.
HeaderInconsistent ==
    /\ Len(bin_bytes) >= 1
    /\ \/ bin_bytes[1] > 7
       \/ bin_bytes[1] > 8 * (Len(bin_bytes) - 1)

\* C5: MalformedStream.  remove_padding of a stream whose padding header is
\* inconsistent raises MalformedStream in place of returning a bit string.
C5_MalformedStreamRaised ==
    (HeaderInconsistent /\ pc \in {"decode", "done", "raised"}) =>
        (pc = "raised" /\ err = "MalformedStream")

\* C6: empty stream.  Unpacking a stream of zero bytes fails with an error
\* (int("", 2) raises ValueError) and no decoded output is produced.
C6_EmptyStreamFails ==
    tamper = "empty" =>
        /\ pc \in {"decompress", "unpad", "raised"}
        /\ pc = "raised" => err = "ValueError"
        /\ decoded = <<>>

C6_Witness ==
    /\ tamper = "empty"
    /\ bin_bytes = <<>>
    /\ pc = "raised"
    /\ err = "ValueError"

\* The padding count the header of the packed bit string holds.
HeaderCount == Int2(Take(padded[1], 8))

\* C7 as stated: 0 <= padding_count <= 7 and
\* (total_bits - 8 - padding_count) mod 8 = 0, total_bits counting the header.
C7_PaddingInvariantAsStated ==
    pc # "pad" =>
        /\ 0 <= HeaderCount /\ HeaderCount <= 7
        /\ (Len(padded[1]) - 8 - HeaderCount) % 8 = 0

\* C7 amended: 0 <= padding_count <= 7, (total_bits - 8) mod 8 = 0, and
\* total_bits - 8 - padding_count is the length L of the bit string packed
\* (so a multiple of 8 only when padding_count is 0).
C7_PaddingInvariant ==
    pc # "pad" =>
        /\ 0 <= HeaderCount /\ HeaderCount <= 7
        /\ HeaderCount = padded[2]
        /\ (Len(padded[1]) - 8) % 8 = 0
        /\ Len(padded[1]) - 8 - HeaderCount = Len(encoded)

C7_Witness ==
    /\ pc = "tobytes"
    /\ Len(encoded) = 3
    /\ HeaderCount = 5
    /\ Len(padded[1]) = 16

\* C8: single symbol.  For a text of one distinct symbol repeated n >= 1
\* times the tree is a single leaf, the table maps that symbol to "0" and
\* has no other entry, and the round trip returns the n symbols, none more.
C8_SingleSymbol ==
    Cardinality(Symbols(text)) = 1 =>
        /\ root # <<>> =>
              root[1] = Leaf(text[1], Len(text))
        /\ pc \notin {"start", "heapify", "loop", "codes"} =>
              codes = (text[1] :> <<"0">>)
        /\ Untouched => pc # "raised"
        /\ (pc = "done" /\ Untouched) =>
              (decoded = text /\ Len(decoded) = Len(text))

C8_Witness ==
    /\ text = <<"a", "a", "a", "a">>
    /\ pc = "done"
    /\ Untouched
    /\ codes = ("a" :> <<"0">>)
    /\ decoded = <<"a", "a", "a", "a">>

\* C9: "abracadabra".  The frequency table is {a:5, b:2, r:2, c:1, d:1};
\* under every order the heap takes among equal frequencies the round trip
\* returns the text and the packed stream, header byte included, has at most
\* 11 bytes.
C9_Abracadabra ==
    text = Abracadabra =>
        /\ pc # "start" =>
              freq = ("a" :> 5 @@ "b" :> 2 @@ "r" :> 2 @@ "c" :> 1 @@ "d" :> 1)
        /\ pc = "stored" => Len(bin_bytes) <= 11
        /\ Untouched => pc # "raised"
        /\ (pc = "done" /\ Untouched) => decoded = Abracadabra

C9_Witness ==
    /\ text = Abracadabra
    /\ pc = "done"
    /\ Untouched
    /\ decoded = Abracadabra
    /\ Len(bin_bytes) = 4
    /\ codes["a"] = <<"0">>

\* At least 2 distinct symbols, one of them more frequent than all the
\* others together.
SkewedFrequencies(t) ==
    /\ Cardinality(Symbols(t)) >= 2
    /\ \E char \in Symbols(t) : 2 * Count(t, char) > Len(t)

\* C10: byte-count monotonicity.  For a text of at least 2 distinct symbols
\* with skewed frequencies ("aaaaaaaabbbbcc" among them), under every order
\* the heap takes, the packed stream with its header byte has fewer bytes
\* than the text has symbols.
C10_ByteCountMonotone ==
    /\ SkewedFrequencies(Skewed)
    /\ (pc = "stored" /\ SkewedFrequencies(text)) => Len(bin_bytes) < Len(text)

C10_Witness ==
    /\ text = Skewed
    /\ pc = "stored"
    /\ Len(bin_bytes) = 4

\* C11: EmptyInput.  An encode of the empty text is reported to the caller
\* (_compress_text raises ValueError, compress prints "File empty." and
\* returns) and neither the packed stream nor the code table is produced.
C11_EmptyInput ==
    text = <<>> =>
        /\ pc \in {"start", "raised", "returned"}
        /\ pc = "raised" => (err = "ValueError" /\ printed = "")
        /\ pc = "returned" => (printed = "File empty." /\ err = "")
        /\ padded[1] = <<>>
        /\ bin_bytes = <<>>
        /\ DOMAIN codes = {}
        /\ DOMAIN table = {}

C11_Witness ==
    /\ text = <<>>
    /\ pc = "raised"
    /\ err = "ValueError"
    /\ bin_bytes = <<>>

\* Some symbol of the text has no entry in the table encode_text is given.
UnknownSymbol == \E i \in DOMAIN text : text[i] \notin DOMAIN codes

\* C12: UnknownSymbol.  encode_text with a supplied table that lacks an
\* entry for a symbol of the text fails with an error naming a symbol that
\* has no entry (KeyError) and returns no bit sequence, not even a partial one.
C12_UnknownSymbol ==
    UnknownSymbol =>
        /\ pc \in {"encode", "raised"}
        /\ pc = "raised" =>
              /\ err = "KeyError"
              /\ err_arg \in {text[i] : i \in DOMAIN text} \ DOMAIN codes
        /\ encoded = <<>>
        /\ padded[1] = <<>>

C12_Witness ==
    /\ pc = "raised"
    /\ err = "KeyError"
    /\ Len(text) >= 2
    /\ text[1] \in DOMAIN codes
    /\ text[2] \notin DOMAIN codes
    /\ err_arg = text[2]
    /\ encoded = <<>>

\* C13: MalformedTable.  A decode with a table one of whose codewords holds
\* a character other than 0 and 1 raises MalformedTable and returns nothing.
C13_MalformedTableRaised ==
    (tamper = "bad_codeword" /\ pc \in {"done", "raised"}) =>
        (pc = "raised" /\ err = "MalformedTable")

\* What a step of _decompress_bytes may do to the artifacts and must return
\* on the second call.
RedecodeStep ==
    pc \in {"decompress", "unpad", "decode"} =>
        /\ bin_bytes' = bin_bytes
        /\ table' = table
        /\ calls' = 2 => pc' # "raised"
        /\ (calls' = 2 /\ pc' = "done") => decoded' = first

\* C14: idempotent re-decode.  No step of _decompress_bytes changes the
\* packed stream or the code table, and a second call on the same pair
\* returns what the first call returned (and raises nothing).
C14_IdempotentRedecode == [][RedecodeStep]_vars

C14_Witness ==
    /\ pc = "done"
    /\ calls = 2
    /\ Untouched
    /\ Len(text) = MaxLen
    /\ first = text
    /\ decoded = first

\* C15: unpack inverts pack.  For every bit string b, of length 0 and of a
\* multiple of 8 too, remove_padding(pad_encoded(b)) is b, directly and
\* after the packed string went through _bits_to_bytes and _bytes_to_bits
\* (which give the packed string back unchanged).
C15_UnpackInvertsPack ==
    /\ remove_padding(pad_encoded(encoded)[1]).raised = ""
    /\ remove_padding(pad_encoded(encoded)[1]).value = encoded
    /\ pc # "raised"
    /\ pc = "unpad" => bits = padded[1]
    /\ pc = "decode" => payload = encoded

C15_Witness ==
    /\ pc = "decode"
    /\ Len(encoded) = 8
    /\ encoded[8] = "1"
    /\ bin_bytes[1] = 0
    /\ payload = encoded

\* C16: packer layout.  For a bit string of length L pad_encoded returns
\* padding = (8 - L mod 8) mod 8 and a string of 8 + L + padding bits: the
\* 8-bit unsigned binary value of padding, then the L bits unchanged and in
\* order, then padding zero bits.
C16_PackerLayout ==
    pc # "pad" =>
        LET L == Len(encoded)
            padding == padded[2]
            packed == padded[1]
        IN /\ padding = (8 - (L % 8)) % 8
           /\ Len(packed) = 8 + L + padding
           /\ \A i \in 1..8 : packed[i] \in {"0", "1"}
           /\ Int2(SubSeq(packed, 1, 8)) = padding
           /\ \A i \in 1..L : packed[8 + i] = encoded[i]
           /\ \A i \in 1..padding : packed[8 + L + i] = "0"

C16_Witness ==
    /\ pc = "tobytes"
    /\ encoded = <<"1", "1", "1", "1", "1">>
    /\ padded[2] = 3
    /\ padded[1] = <<"0", "0", "0", "0", "0", "0", "1", "1",
                     "1", "1", "1", "1", "1", "0", "0", "0">>

\* The number of internal nodes of the tree under a node.
RECURSIVE InternalCount(_)
InternalCount(n) ==
    IF n.left = <<>> /\ n.right = <<>> THEN 0
    ELSE 1 + (IF n.left = <<>> THEN 0 ELSE InternalCount(n.left[1]))
           + (IF n.right = <<>> THEN 0 ELSE InternalCount(n.right[1]))

\* The leaves under a node, as the sequence of their symbols from left to right.
RECURSIVE LeafSeq(_)
LeafSeq(n) ==
    IF n.left = <<>> /\ n.right = <<>> THEN <<n.char>>
    ELSE (IF n.left = <<>> THEN <<>> ELSE LeafSeq(n.left[1]))
         \o (IF n.right = <<>> THEN <<>> ELSE LeafSeq(n.right[1]))

\* Every leaf under the node holds a symbol with its frequency, every other
\* node holds no symbol, two children and the sum of their frequencies.
RECURSIVE WellFormed(_)
WellFormed(n) ==
    IF n.left = <<>> /\ n.right = <<>>
    THEN n.char \in DOMAIN freq /\ n.freq = freq[n.char]
    ELSE /\ n.char = None
         /\ n.left # <<>>
         /\ n.right # <<>>
         /\ n.freq = n.left[1].freq + n.right[1].freq
         /\ WellFormed(n.left[1])
         /\ WellFormed(n.right[1])

RECURSIVE SumInternal(_)
SumInternal(h) ==
    IF h = {} THEN 0
    ELSE LET n == CHOOSE x \in h : TRUE
         IN InternalCount(n) + SumInternal(h \ {n})

\* The tree part of C17: merges done so far, and the tree returned.
TreeBuilt ==
    /\ pc = "loop" =>
          /\ SumInternal(heap) = Cardinality(DOMAIN freq) - Cardinality(heap)
          /\ \A n \in heap : WellFormed(n)
    /\ root # <<>> =>
          /\ InternalCount(root[1]) = Cardinality(DOMAIN freq) - 1
          /\ WellFormed(root[1])
          /\ Len(LeafSeq(root[1])) = Cardinality(DOMAIN freq)
          /\ {LeafSeq(root[1])[i] : i \in DOMAIN LeafSeq(root[1])} = Symbols(text)
          /\ DOMAIN freq = Symbols(text)
          /\ root[1].freq = Len(text)

\* The merge part of C17: a pass of the loop takes the two lowest nodes out
\* (the first as left child, the second as right child) and puts their sum in.
MergeStep ==
    (pc = "loop" /\ heap' # heap) =>
        \E m \in heap' :
            /\ heap' \ heap = {m}
            /\ m.char = None
            /\ m.left # <<>> /\ m.right # <<>>
            /\ m.left[1] # m.right[1]
            /\ heap \ heap' = {m.left[1], m.right[1]}
            /\ m.freq = m.left[1].freq + m.right[1].freq
            /\ \A x \in heap : m.left[1].freq <= x.freq
            /\ \A x \in heap \ {m.left[1]} : m.right[1].freq <= x.freq

\* C17: tree construction.  For n >= 1 symbols build_huffman_tree ends after
\* exactly n - 1 merges with one root; each merge removes the two lowest
\* nodes of the heap (first = left, second = right) and inserts an internal
\* node with the sum of their frequencies; in the tree returned every
\* internal node has two children, the leaves are the distinct symbols, each
\* once, and the root frequency is the length of the input.
C17_TreeConstruction == []TreeBuilt /\ [][MergeStep]_vars

C17_Witness ==
    /\ text = Abracadabra
    /\ pc = "codes"
    /\ InternalCount(root[1]) = 4
    /\ Len(LeafSeq(root[1])) = 5
    /\ root[1].freq = 11

\* The values of a frequency table, in some order.
RECURSIVE FreqValues(_, _)
FreqValues(f, S) ==
    IF S = {} THEN <<>>
    ELSE LET c == CHOOSE x \in S : TRUE
         IN <<f[c]>> \o FreqValues(f, S \ {c})

\* The sequence without the elements at positions i and j.
Without(q, i, j) ==
    LET keep == {k \in DOMAIN q : k # i /\ k # j}
        F[k \in 0..Len(q)] ==
            IF k = 0 THEN <<>>
            ELSE IF k \in keep THEN Append(F[k - 1], q[k]) ELSE F[k - 1]
    IN F[Len(q)]

\* The sum of the merged frequencies when the two lowest values are merged
\* until one is left: a function of the frequencies alone.
RECURSIVE MergeCost(_)
MergeCost(q) ==
    IF Len(q) <= 1 THEN 0
    ELSE LET i == CHOOSE a \in DOMAIN q : \A b \in DOMAIN q : q[a] <= q[b]
             j == CHOOSE a \in DOMAIN q \ {i} :
                      \A b \in DOMAIN q \ {i} : q[a] <= q[b]
         IN (q[i] + q[j]) + MergeCost(Append(Without(q, i, j), q[i] + q[j]))

\* C18: code-length monotonicity.  In the table generated for at least 2
\* symbols, under every order the heap takes among equal frequencies, a
\* symbol of strictly higher frequency never has a strictly longer codeword
\* than a symbol of lower frequency, and the encoded bit length is the same
\* number, fixed by the frequencies alone.
C18_CodeLengthMonotone ==
    (Cardinality(DOMAIN freq) >= 2 /\ DOMAIN codes # {}) =>
        /\ \A c1 \in DOMAIN codes : \A c2 \in DOMAIN codes :
              freq[c1] > freq[c2] => Len(codes[c1]) <= Len(codes[c2])
        /\ pc = "pad" => Len(encoded) = MergeCost(FreqValues(freq, DOMAIN freq))

C18_Witness ==
    /\ text = Abracadabra
    /\ pc = "pad"
    /\ Len(codes["a"]) = 1
    /\ Len(codes["c"]) = 3
    /\ Len(encoded) = 23

====
